---- MODULE Spec2Model ----
(***************************************************************************)
(* Volume profile, Point of Control and Value Area of src/v4.py.           *)
(*                                                                         *)
(* One run of the script is modelled: the bars df returned by the loader,  *)
(* the binning of the closes (np.linspace, pd.cut, groupby), the POC       *)
(* (idxmax), the Value-Area expansion loop and the final VAH/VAL lookup    *)
(* and colouring.                                                          *)
(*                                                                         *)
(* Numbers.  Prices are integers.  np.linspace divides the price range by  *)
(* bins_count - 1, so every boundary is kept exactly as a multiple of      *)
(* 1/(bins_count - 1): bins holds boundary * (bins_count - 1).  A label    *)
(* (bucket midpoint) is kept as midpoint * 2 * (bins_count - 1).           *)
(* va_percent is the slider's integer (the code divides it by 100.0), and  *)
(* target_vol holds total_vol * va_percent, i.e. the code's target * 100;  *)
(* the loop test current_vol < target_vol is current_vol * 100 <           *)
(* target_vol.  Floating-point rounding of these products is not modelled. *)
(***************************************************************************)
EXTENDS Integers, Sequences, FiniteSets, TLC

\* ---- bounds of the general input family (arbitrary bars) ----
MaxBars == 2
MaxPrice == 3
MaxVolume == 1
MaxBins == 5
\* ---- bounds of the ladder input family (one bar per bucket) ----
MaxBuckets == 4
MaxBucketVolume == 3

\* slider "价值区域占比 (%)" (line 35): minimum, default, maximum
VaPercents == {50, 70, 90}
VaDefault == 70

\* a missing value: NaN in a column, a name not yet bound
NaN == -1

VARIABLES df, bins_count, va_percent, pc, bins, bin_mid, vp,
          poc_idx, poc_price, total_vol, target_vol, current_vol,
          up_i, down_i, vah, val, colors

vars == <<df, bins_count, va_percent, pc, bins, bin_mid, vp,
          poc_idx, poc_price, total_vol, target_vol, current_vol,
          up_i, down_i, vah, val, colors>>

\* ---------------------------------------------------------------------------
\* Data
\* ---------------------------------------------------------------------------

\* one OHLCV row of df (Open is never read by the computation)
Bar(lo, hi, cl, v) == [Low |-> lo, High |-> hi, Close |-> cl, Volume |-> v]

\* df['Low'].min()
PriceMin(d) == CHOOSE m \in {d[i].Low : i \in DOMAIN d} :
                 \A i \in DOMAIN d : m <= d[i].Low

\* df['High'].max()
PriceMax(d) == CHOOSE m \in {d[i].High : i \in DOMAIN d} :
                 \A i \in DOMAIN d : m >= d[i].High

\* np.linspace(a, b, n), each value times (n - 1)
Linspace(a, b, n) == [k \in 1..n |-> a * (n - 1) + (k - 1) * (b - a)]

\* bins[:-1] + np.diff(bins)/2, each value times 2
Labels(b) == [k \in 1..(Len(b) - 1) |-> 2 * b[k] + (b[k + 1] - b[k])]

\* pd.cut of one value x (times the scale of b): the label of the interval
\* (b[k], b[k+1]] holding x, NaN when there is none (right=True,
\* include_lowest=False)
Cut(x, b) ==
    IF \E k \in 1..(Len(b) - 1) : b[k] < x /\ x <= b[k + 1]
    THEN Labels(b)[CHOOSE k \in 1..(Len(b) - 1) : b[k] < x /\ x <= b[k + 1]]
    ELSE NaN

\* pd.cut(df['Close'], bins=bins, labels=...): the column df['bin_mid']
CutColumn(d, b) == [i \in DOMAIN d |-> Cut(d[i].Close * (Len(b) - 1), b)]

\* sum of the Volume of the rows of d whose key in column col is m
RECURSIVE GroupVolume(_, _, _, _)
GroupVolume(d, col, m, i) ==
    IF i = 0 THEN 0
    ELSE GroupVolume(d, col, m, i - 1) + (IF col[i] = m THEN d[i].Volume ELSE 0)

\* the categories among cats[1..k] that occur in the column, in category order
RECURSIVE ObservedUpTo(_, _, _)
ObservedUpTo(cats, col, k) ==
    IF k = 0 THEN <<>>
    ELSE ObservedUpTo(cats, col, k - 1)
           \o (IF \E i \in DOMAIN col : col[i] = cats[k] THEN <<cats[k]>> ELSE <<>>)

\* observed=False: every category is a group key
GroupKeysAll(cats, col) == cats

\* the group keys of groupby(..., observed=True) on a categorical column
\* with categories cats: the categories that occur (a NaN key is no category)
GroupKeys(cats, col) == ObservedUpTo(cats, col, Len(cats))

\* df.groupby('bin_mid', observed=True)['Volume'].sum().reset_index():
\* one row per group key, in category order, with the rows' summed Volume
GroupBySum(d, col, cats) ==
    LET keys == GroupKeys(cats, col)
    IN [j \in 1..Len(keys) |->
          [bin_mid |-> keys[j], Volume |-> GroupVolume(d, col, keys[j], Len(d))]]

\* len(vp)
len(v) == Len(v)

\* vp.loc[i, 'Volume'] and vp.loc[i, 'bin_mid'] for the 0-based row label i
VolumeAt(v, i) == v[i + 1].Volume
BinMidAt(v, i) == v[i + 1].bin_mid

\* a scan that lets a later equal row replace the best one
RECURSIVE ArgMaxLast(_, _, _)
ArgMaxLast(v, i, best) ==
    IF i >= len(v) THEN best
    ELSE ArgMaxLast(v, i + 1, IF VolumeAt(v, i) >= VolumeAt(v, best) THEN i ELSE best)

\* the scan of argmax from row i on, best being the row of the largest
\* volume so far: a later row replaces it only when strictly larger
RECURSIVE ArgMaxFrom(_, _, _)
ArgMaxFrom(v, i, best) ==
    IF i >= len(v) THEN best
    ELSE ArgMaxFrom(v, i + 1, IF VolumeAt(v, i) > VolumeAt(v, best) THEN i ELSE best)

\* vp['Volume'].idxmax() of a non-empty column
IdxMax(v) == ArgMaxFrom(v, 1, 0)

\* vp['Volume'].sum() over the row labels lo..hi
RECURSIVE RangeVolume(_, _, _)
RangeVolume(v, lo, hi) ==
    IF hi < lo THEN 0 ELSE RangeVolume(v, lo, hi - 1) + VolumeAt(v, hi)

TotalVolume(v) == RangeVolume(v, 0, len(v) - 1)

\* v_up and v_down of one loop iteration: the neighbour's volume, 0 when
\* there is no neighbour
VUp(v, u) == IF u + 1 < len(v) THEN VolumeAt(v, u + 1) ELSE 0
VDown(v, d) == IF d - 1 >= 0 THEN VolumeAt(v, d - 1) ELSE 0

\* the loop condition, and the test of the break
LoopCond == current_vol * 100 < target_vol

\* a break taken only when both neighbours are missing
BreakAtEdges == up_i + 1 >= len(vp) /\ down_i - 1 < 0

BreakCond == VUp(vp, up_i) = 0 /\ VDown(vp, down_i) = 0

\* a tie extends the lower side
ExpandUpStrict(vu, vd) == vu > vd

\* the comparison inverted: the smaller neighbour is taken
ExpandUpInverted(vu, vd) == vu <= vd

\* the side the iteration extends
ExpandUp(vu, vd) == vu >= vd

\* colors after lines 100-102
Colouring(v, d, u, p) ==
    [i \in 1..len(v) |->
        IF i - 1 = p THEN "Gold"
        ELSE IF d <= i - 1 /\ i - 1 <= u THEN "in" ELSE "out"]

\* ---------------------------------------------------------------------------
\* Inputs
\* ---------------------------------------------------------------------------

Prices == 1..MaxPrice

Bars == {Bar(lo, hi, cl, v) : lo \in Prices, hi \in Prices, cl \in Prices,
                              v \in 0..MaxVolume}

ValidBars == {b \in Bars : b.Low <= b.Close /\ b.Close <= b.High}

BarSeqs == UNION {[1..n -> ValidBars] : n \in 0..MaxBars}

\* bar k closes at the top of the k-th unit interval above price 1 and trades w[k]
Ladder(w) == [k \in 1..Len(w) |-> Bar(k, k + 1, k + 1, w[k])]

VolumeSeqs == UNION {[1..n -> 0..MaxBucketVolume] : n \in 0..MaxBuckets}

\* before the script runs: nothing is bound yet
Init ==
    /\ pc = "init"
    /\ df = <<>>
    /\ bins_count = NaN
    /\ va_percent = NaN
    /\ bins = <<>>
    /\ bin_mid = <<>>
    /\ vp = <<>>
    /\ poc_idx = NaN
    /\ poc_price = NaN
    /\ total_vol = NaN
    /\ target_vol = NaN
    /\ current_vol = NaN
    /\ up_i = NaN
    /\ down_i = NaN
    /\ vah = NaN
    /\ val = NaN
    /\ colors = <<>>

\* ---------------------------------------------------------------------------
\* Steps of the script
\* ---------------------------------------------------------------------------

\* lines 14-47: the sidebar values are read and the bars are loaded:
\* any bars with any bin count, the fraction left at its default
Load ==
    /\ pc = "init"
    /\ pc' = "start"
    /\ \E d \in BarSeqs, bc \in 2..MaxBins :
          /\ df' = d
          /\ bins_count' = bc
    /\ va_percent' = VaDefault
    /\ UNCHANGED <<bins, bin_mid, vp, poc_idx, poc_price, total_vol, target_vol,
                   current_vol, up_i, down_i, vah, val, colors>>

\* lines 14-47 again, for bars that put one bar in every bucket, with any
\* fraction: the profile is then any sequence of volumes
LoadLadder ==
    /\ pc = "init"
    /\ pc' = "start"
    /\ \E w \in VolumeSeqs, va \in VaPercents :
          /\ df' = Ladder(w)
          /\ bins_count' = Len(w) + 1
          /\ va_percent' = va
    /\ UNCHANGED <<bins, bin_mid, vp, poc_idx, poc_price, total_vol, target_vol,
                   current_vol, up_i, down_i, vah, val, colors>>

\* lines 49-50: no data
EmptyWarning ==
    /\ pc = "start"
    /\ df = <<>>
    /\ pc' = "warned"
    /\ UNCHANGED <<df, bins_count, va_percent, bins, bin_mid, vp, poc_idx,
                   poc_price, total_vol, target_vol, current_vol, up_i,
                   down_i, vah, val, colors>>

\* lines 53-59: boundaries, assignment of the closes, aggregation.
\* pd.cut raises when the boundaries are not unique (more than two equal
\* boundaries of a zero-width range)
Binning ==
    /\ pc = "start"
    /\ df # <<>>
    /\ bins' = Linspace(PriceMin(df), PriceMax(df), bins_count)
    /\ IF PriceMin(df) = PriceMax(df) /\ bins_count > 2
       THEN /\ pc' = "error"
            /\ UNCHANGED <<bin_mid, vp>>
       ELSE /\ pc' = "poc"
            /\ bin_mid' = CutColumn(df, bins')
            /\ vp' = GroupBySum(df, bin_mid', Labels(bins'))
    /\ UNCHANGED <<df, bins_count, va_percent, poc_idx, poc_price, total_vol,
                   target_vol, current_vol, up_i, down_i, vah, val, colors>>

\* lines 62-69: POC and the start of the Value Area.  idxmax raises on an
\* empty column
POC ==
    /\ pc = "poc"
    /\ IF len(vp) = 0
       THEN /\ pc' = "error"
            /\ UNCHANGED <<poc_idx, poc_price, total_vol, target_vol,
                           current_vol, up_i, down_i>>
       ELSE /\ pc' = "loop"
            /\ poc_idx' = IdxMax(vp)
            /\ poc_price' = BinMidAt(vp, IdxMax(vp))
            /\ total_vol' = TotalVolume(vp)
            /\ target_vol' = TotalVolume(vp) * va_percent
            /\ current_vol' = VolumeAt(vp, IdxMax(vp))
            /\ up_i' = IdxMax(vp)
            /\ down_i' = IdxMax(vp)
    /\ UNCHANGED <<df, bins_count, va_percent, bins, bin_mid, vp, vah, val,
                   colors>>

\* an iteration whose lower branch moves down_i the wrong way
ExpandSignSlip ==
    /\ pc = "loop"
    /\ LoopCond
    /\ ~BreakCond
    /\ IF ExpandUp(VUp(vp, up_i), VDown(vp, down_i))
       THEN /\ current_vol' = current_vol + VUp(vp, up_i)
            /\ up_i' = up_i + 1
            /\ UNCHANGED down_i
       ELSE /\ current_vol' = current_vol + VDown(vp, down_i)
            /\ down_i' = down_i + 1
            /\ UNCHANGED up_i
    /\ UNCHANGED <<df, bins_count, va_percent, pc, bins, bin_mid, vp, poc_idx,
                   poc_price, total_vol, target_vol, vah, val, colors>>

\* lines 71-80: one iteration that does not break
Expand ==
    /\ pc = "loop"
    /\ LoopCond
    /\ ~BreakCond
    /\ IF ExpandUp(VUp(vp, up_i), VDown(vp, down_i))
       THEN /\ current_vol' = current_vol + VUp(vp, up_i)
            /\ up_i' = up_i + 1
            /\ UNCHANGED down_i
       ELSE /\ current_vol' = current_vol + VDown(vp, down_i)
            /\ down_i' = down_i - 1
            /\ UNCHANGED up_i
    /\ UNCHANGED <<df, bins_count, va_percent, pc, bins, bin_mid, vp, poc_idx,
                   poc_price, total_vol, target_vol, vah, val, colors>>

\* lines 82-102 once the loop is left: VAH/VAL lookup and the colouring;
\* vp.loc raises KeyError for a row label that does not exist
Lookup ==
    IF 0 <= down_i /\ up_i <= len(vp) - 1
    THEN /\ pc' = "done"
         /\ vah' = BinMidAt(vp, up_i)
         /\ val' = BinMidAt(vp, down_i)
         /\ colors' = Colouring(vp, down_i, up_i, poc_idx)
    ELSE /\ pc' = "error"
         /\ UNCHANGED <<vah, val, colors>>

\* line 74: both neighbours are 0, the loop is left by break
Break ==
    /\ pc = "loop"
    /\ LoopCond
    /\ BreakCond
    /\ Lookup
    /\ UNCHANGED <<df, bins_count, va_percent, bins, bin_mid, vp, poc_idx,
                   poc_price, total_vol, target_vol, current_vol, up_i, down_i>>

\* line 71: the target is reached, the loop ends
Reached ==
    /\ pc = "loop"
    /\ ~LoopCond
    /\ Lookup
    /\ UNCHANGED <<df, bins_count, va_percent, bins, bin_mid, vp, poc_idx,
                   poc_price, total_vol, target_vol, current_vol, up_i, down_i>>

Compute == EmptyWarning \/ Binning \/ POC \/ Expand \/ Break \/ Reached

Next == Load \/ LoadLadder \/ Compute

NextLadder == LoadLadder \/ Compute

Spec == Init /\ [][Next]_vars

SpecLadder == Init /\ [][NextLadder]_vars

\* the script runs its statements one after the other: once the bars are
\* loaded, a step of the computation that can be taken is taken
FairLadder == Init /\ [][NextLadder]_vars /\ WF_vars(Compute)

\* ---------------------------------------------------------------------------
\* Properties
\* ---------------------------------------------------------------------------

\* lines 53-59 have run
Binned == bin_mid # <<>>

\* the loop has been entered, or left with a result
InLoop == pc \in {"loop", "done"}

\* the close of bar i, in the scale of bins
CloseOf(i) == df[i].Close * (bins_count - 1)

\* the interval k of the boundaries as the code assigns closes to it
InBucket(i, k) == bins[k] < CloseOf(i) /\ CloseOf(i) <= bins[k + 1]

\* the interval k as half-open [bins[k], bins[k+1]), the last one closed
InHalfOpen(i, k) ==
    \/ bins[k] <= CloseOf(i) /\ CloseOf(i) < bins[k + 1]
    \/ k = bins_count - 1 /\ CloseOf(i) = bins[bins_count]

\* the midpoint of interval k, in the scale of the labels
MidOf(k) == bins[k] + bins[k + 1]

ObservedBuckets == {k \in 1..(bins_count - 1) : \E i \in DOMAIN df : InBucket(i, k)}

\* the volume of the bars 1..i whose close lies in interval k
RECURSIVE BucketVolume(_, _)
BucketVolume(k, i) ==
    IF i = 0 THEN 0
    ELSE BucketVolume(k, i - 1) + (IF InBucket(i, k) THEN df[i].Volume ELSE 0)

\* the volume of the bars 1..i whose close lies in [priceMin, priceMax]
RECURSIVE InRangeVolume(_)
InRangeVolume(i) ==
    IF i = 0 THEN 0
    ELSE InRangeVolume(i - 1)
           + (IF bins[1] <= CloseOf(i) /\ CloseOf(i) <= bins[bins_count]
              THEN df[i].Volume ELSE 0)

\* the volume of the rows down_i..up_i
AreaVolume == RangeVolume(vp, down_i, up_i)

\* C1: in every state of the loop and in the result, down_i <= poc_idx <= up_i
C1_PocInsideArea == InLoop => (down_i <= poc_idx /\ poc_idx <= up_i)

\* C1 witness: a result whose area was extended on both sides of the POC
C1_Witness == pc = "done" /\ down_i < poc_idx /\ poc_idx < up_i

\* C2: the bucket volumes sum to the volume of all bars whose close lies in
\* [priceMin, priceMax]; no bar closing at priceMin or priceMax is lost
C2_VolumeConserved ==
    (Binned /\ bins[1] < bins[bins_count]) => TotalVolume(vp) = InRangeVolume(Len(df))

\* C3: at the end the area holds at least the target volume, unless the loop
\* was left by the break, and then it holds the volume of the whole profile
C3_TargetOrWholeProfile ==
    pc = "done" =>
        IF AreaVolume * 100 >= total_vol * va_percent
        THEN TRUE
        ELSE AreaVolume = TotalVolume(vp)

\* C4: the rows ascend by midpoint and poc_idx is the first row holding the
\* maximum volume: no row holds more, no earlier row holds as much
C4_PocFirstMaximum ==
    /\ Binned => \A i, j \in 1..len(vp) : i < j => vp[i].bin_mid < vp[j].bin_mid
    /\ InLoop =>
         /\ poc_idx \in 0..(len(vp) - 1)
         /\ \A j \in 0..(len(vp) - 1) : VolumeAt(vp, j) <= VolumeAt(vp, poc_idx)
         /\ \A j \in 0..(poc_idx - 1) : VolumeAt(vp, j) < VolumeAt(vp, poc_idx)
         /\ poc_price = BinMidAt(vp, poc_idx)

\* C4 witness: a later row ties with the POC row
C4_Witness ==
    /\ pc = "loop"
    /\ VolumeAt(vp, poc_idx) > 0
    /\ \E j \in (poc_idx + 1)..(len(vp) - 1) : VolumeAt(vp, j) = VolumeAt(vp, poc_idx)

\* C5: with no bucket, or with every bucket volume 0, the run ends in an
\* error and produces no POC price and no Value Area
C5_EmptyProfileFails ==
    (Binned /\ pc # "poc" /\ \A j \in 1..len(vp) : vp[j].Volume = 0) =>
        /\ pc = "error"
        /\ poc_price = NaN
        /\ vah = NaN
        /\ val = NaN

\* C6: every bar is counted in the half-open interval [bins[k], bins[k+1])
\* holding its close, a close equal to priceMax in the last interval
C6_HalfOpenAssignment ==
    (Binned /\ bins[1] < bins[bins_count]) =>
        \A i \in DOMAIN df : \A k \in 1..(bins_count - 1) :
            InHalfOpen(i, k) => bin_mid[i] = MidOf(k)

\* C7 as stated: the bucket sequence has bins_count - 1 rows, row k being
\* the interval between boundary k and boundary k+1
C7_AllBucketsKept ==
    (Binned /\ bins[1] < bins[bins_count]) =>
        /\ len(vp) = bins_count - 1
        /\ \A k \in 1..len(vp) : vp[k].bin_mid = MidOf(k)

\* C7 amended: the bucket sequence has one row per interval that holds the
\* close of at least one bar, in ascending order, with the volume of those
\* bars (0 when they all trade 0); an interval without a bar has no row
C7_ObservedBucketsOnly ==
    Binned =>
        /\ len(vp) = Cardinality(ObservedBuckets)
        /\ \A j \in 1..len(vp) : \E k \in ObservedBuckets :
              /\ Cardinality({h \in ObservedBuckets : h < k}) = j - 1
              /\ vp[j].bin_mid = MidOf(k)
              /\ vp[j].Volume = BucketVolume(k, Len(df))

\* C7 witness: the area was extended across an interval that has no row
C7_Witness ==
    /\ pc = "done"
    /\ len(vp) < bins_count - 1
    /\ \E j \in (down_i + 1)..up_i :
          vp[j + 1].bin_mid - vp[j].bin_mid > 2 * (bins[2] - bins[1])

\* C8: an iteration that does not break moves exactly one index by one, the
\* upper one when the volume above is >= the volume below, and adds the
\* volume of the newly included row to current_vol
C8_OneSideOneStep ==
    [][(pc = "loop" /\ pc' = "loop") =>
         LET vu == IF up_i + 1 <= len(vp) - 1 THEN vp[up_i + 2].Volume ELSE 0
             vd == IF down_i >= 1 THEN vp[down_i].Volume ELSE 0
         IN IF vu >= vd
            THEN /\ up_i' = up_i + 1
                 /\ down_i' = down_i
                 /\ up_i' <= len(vp) - 1
                 /\ current_vol' = current_vol + vp[up_i' + 1].Volume
            ELSE /\ down_i' = down_i - 1
                 /\ up_i' = up_i
                 /\ down_i' >= 0
                 /\ current_vol' = current_vol + vp[down_i' + 1].Volume]_vars

\* C8 witness: the two neighbours of the POC tied above 0, the upper one was taken
C8_Witness ==
    /\ pc = "loop"
    /\ poc_idx >= 1
    /\ down_i = poc_idx
    /\ up_i = poc_idx + 1
    /\ VolumeAt(vp, poc_idx + 1) = VolumeAt(vp, poc_idx - 1)
    /\ VolumeAt(vp, poc_idx + 1) > 0

\* C9: the loop takes at most len(vp) - 1 expansion steps (each moves one
\* index by one), and a run that has loaded its bars ends with a result, an
\* error or the warning
C9_Terminates ==
    /\ [](InLoop => up_i - down_i <= len(vp) - 1)
    /\ (pc = "start") ~> (pc \in {"done", "error", "warned"})

\* C9 witness: a result reached after len(vp) - 1 expansion steps
C9_Witness == pc = "done" /\ len(vp) >= 3 /\ up_i - down_i = len(vp) - 1

\* C10: the indices stay inside the bucket sequence, so the VAH/VAL lookup
\* and the colouring address existing rows: no error arises once the loop
\* has been entered
C10_IndicesInRange ==
    /\ InLoop => (0 <= down_i /\ up_i <= len(vp) - 1)
    /\ pc = "done" => (vah = BinMidAt(vp, up_i) /\ val = BinMidAt(vp, down_i)
                        /\ Len(colors) = len(vp))
    /\ pc = "error" => up_i = NaN

\* C10 witness: a result whose area reaches both ends of the profile from a
\* POC strictly inside
C10_Witness ==
    /\ pc = "done"
    /\ 0 < poc_idx /\ poc_idx < len(vp) - 1
    /\ down_i = 0 /\ up_i = len(vp) - 1

====
